---- MODULE Spec2Model ----
(***************************************************************************)
(* Model of GPU_WSI_Classification.py: tissue tiling of a whole-slide      *)
(* image, tile classification, aggregation into a slide-level summary and  *)
(* the thumbnail overlays, together with the Streamlit script that drives  *)
(* them.                                                                   *)
(*                                                                         *)
(* Numbers.  Percentages are kept as integers in hundredths of a percent   *)
(* (30.0 % is 3000, 0.01 % is 1), so "round(v, 2)" is rounding to the      *)
(* nearest integer.  The downsample factor is the rational num/den.        *)
(* Strings that the code formats and parses (tile names) are sequences of  *)
(* one-character strings.  "None" is the empty sequence and a value v that *)
(* may be None is <<v>>.                                                   *)
(***************************************************************************)
EXTENDS Integers, Sequences, FiniteSets, TLC

\* ------------------------------------------------------------------------
\* CONFIGURATION
\* ------------------------------------------------------------------------
TILE_SIZE == 256
TISSUE_THRESHOLD == [num |-> 1, den |-> 2]
THUMB_MAX == 1024
CLASS_NAMES == <<"Tumor Cells", "Mitosis", "Karyorrhexis", "Stroma">>
OUTPUT_DIR == "./tiles_output"

\* ------------------------------------------------------------------------
\* Bounds of the model
\* ------------------------------------------------------------------------
\* Largest number of tissue regions a labelled mask holds.
MaxRegions == 2
\* Longest tile-prediction mapping / key list handed to a function on its own.
MaxTiles == 4

None == <<>>
Some(v) == <<v>>

Max(a, b) == IF a >= b THEN a ELSE b

Range(s) == {s[i] : i \in 1..Len(s)}

\* ------------------------------------------------------------------------
\* Arithmetic of the Python built-ins
\* ------------------------------------------------------------------------
\* round(n / d) for n >= 0, d > 0: nearest integer, an exact tie to the even
\* one (numpy's round of the float32 percentages: rint of the scaled value).
Round(n, d) ==
    LET q == n \div d
        r == n % d
    IN  IF 2 * r < d THEN q
        ELSE IF 2 * r > d THEN q + 1
        ELSE IF q % 2 = 0 THEN q ELSE q + 1

\* range(lo, hi, step) as the sequence it iterates.
PyRange(lo, hi, step) ==
    LET n == IF hi <= lo THEN 0 ELSE (hi - lo + step - 1) \div step
    IN  [i \in 1..n |-> lo + (i - 1) * step]

\* ------------------------------------------------------------------------
\* Strings: str(int), str.replace(old, ""), str.split(sep), int(str)
\* ------------------------------------------------------------------------
Digits == <<"0", "1", "2", "3", "4", "5", "6", "7", "8", "9">>

RECURSIVE Str(_)
Str(n) == IF n < 10 THEN <<Digits[n + 1]>>
          ELSE Str(n \div 10) \o <<Digits[(n % 10) + 1]>>

RECURSIVE Remove(_, _)
Remove(s, old) ==
    IF Len(s) < Len(old) THEN s
    ELSE IF SubSeq(s, 1, Len(old)) = old
         THEN Remove(SubSeq(s, Len(old) + 1, Len(s)), old)
         ELSE <<Head(s)>> \o Remove(Tail(s), old)

RECURSIVE Split(_, _)
Split(s, sep) ==
    IF \A i \in 1..Len(s) : s[i] # sep THEN <<s>>
    ELSE LET k == CHOOSE i \in 1..Len(s) :
                      s[i] = sep /\ \A j \in 1..(i - 1) : s[j] # sep
         IN  <<SubSeq(s, 1, k - 1)>> \o Split(SubSeq(s, k + 1, Len(s)), sep)

DigitValue(c) == CHOOSE d \in 0..9 : Digits[d + 1] = c

\* int(p) raises ValueError unless p is a non-empty run of decimal digits
\* (over the alphabet of the keys below: digits, letters, "_" and ".").
IsInt(p) == Len(p) > 0 /\ \A i \in 1..Len(p) : \E d \in 1..10 : Digits[d] = p[i]

RECURSIVE ParseInt(_)
ParseInt(p) == IF Len(p) = 1 THEN DigitValue(p[1])
               ELSE 10 * ParseInt(SubSeq(p, 1, Len(p) - 1)) + DigitValue(p[Len(p)])

TILE_PREFIX == <<"t", "i", "l", "e", "_">>
JPG_SUFFIX == <<".", "j", "p", "g">>

\* f"tile_{x}_{y}.jpg"
TileName(x, y) == TILE_PREFIX \o Str(x) \o <<"_">> \o Str(y) \o JPG_SUFFIX

\* os.path.join(output_subdir, name) and os.path.basename(path)
PathJoin(dir, name) == [dir |-> dir, base |-> name]
Basename(path) == path.base

\* ------------------------------------------------------------------------
\* Insertion-ordered dict as a sequence of [key, val] entries
\* ------------------------------------------------------------------------
DictHas(d, k) == \E i \in 1..Len(d) : d[i].key = k

DictGet(d, k, default) ==
    IF DictHas(d, k) THEN d[CHOOSE i \in 1..Len(d) : d[i].key = k].val
    ELSE default

\* d[k] = v: an existing key keeps its position, a new key goes last.
DictSet(d, k, v) ==
    IF DictHas(d, k)
    THEN [i \in 1..Len(d) |-> IF d[i].key = k THEN [key |-> k, val |-> v] ELSE d[i]]
    ELSE Append(d, [key |-> k, val |-> v])

DictKeys(d) == [i \in 1..Len(d) |-> d[i].key]
DictValues(d) == [i \in 1..Len(d) |-> d[i].val]

RECURSIVE SumSeq(_)
SumSeq(s) == IF s = <<>> THEN 0 ELSE Head(s) + SumSeq(Tail(s))

\* ------------------------------------------------------------------------
\* The slide: dimensions, thumbnail, tissue regions, pixel reads
\* ------------------------------------------------------------------------
\* Size of slide.get_thumbnail((1024, 1024)): the slide scaled to fit the
\* bound with its aspect ratio kept, never enlarged.
ThumbnailSize(w, h) ==
    IF w <= THUMB_MAX /\ h <= THUMB_MAX THEN <<w, h>>
    ELSE IF w >= h THEN <<THUMB_MAX, Max(1, Round(h * THUMB_MAX, w))>>
    ELSE <<Max(1, Round(w * THUMB_MAX, h)), THUMB_MAX>>

\* regionprops(labeled_mask): the bounding boxes (minr, minc, maxr, maxc) of
\* the connected components of the thumbnail's tissue mask, by label.  The
\* mask is what detect_tissue_regions computes from the slide's pixels, so
\* it is held as a field of the slide.
Regions(slide) == slide.regions

\* np.sum(gray_tile < threshold_otsu(gray_tile)) of the tile read at (x, y):
\* a property of the pixels of the slide, the same at every read.
TissuePixels(slide, x, y) ==
    CASE slide.content = "dense" -> 40000
      [] slide.content = "half"  -> 32768
      [] slide.content = "mixed" ->
            IF ((x \div TILE_SIZE) + (y \div TILE_SIZE)) % 2 = 0 THEN 32769 ELSE 32768

\* ------------------------------------------------------------------------
\* EXTRACT TILES
\* ------------------------------------------------------------------------
\* int(v * downsample_factor)
ScaleUp(v, f) == (v * f.num) \div f.den

\* x + TILE_SIZE > slide_w or y + TILE_SIZE > slide_h
ExceedsBounds(x, y, w, h) == x + TILE_SIZE > w \/ y + TILE_SIZE > h

\* Faulty variant: a tile at the threshold passes.
TissueAcceptedAtThreshold(pixels) ==
    pixels * TISSUE_THRESHOLD.den >= TISSUE_THRESHOLD.num * TILE_SIZE * TILE_SIZE

\* tissue_ratio > TISSUE_THRESHOLD, tissue_ratio = pixels / (TILE_SIZE * TILE_SIZE)
TissueAccepted(pixels) ==
    pixels * TISSUE_THRESHOLD.den > TISSUE_THRESHOLD.num * TILE_SIZE * TILE_SIZE

\* The grid of one region: range(min_x, max_x, TILE_SIZE), range(min_y, max_y, TILE_SIZE)
GridX(bbox, f) == PyRange(ScaleUp(bbox[2], f), ScaleUp(bbox[4], f), TILE_SIZE)
GridY(bbox, f) == PyRange(ScaleUp(bbox[1], f), ScaleUp(bbox[3], f), TILE_SIZE)

RECURSIVE ScanY(_, _, _, _, _)
ScanY(slide, dir, x, ys, acc) ==
    IF ys = <<>> THEN acc
    ELSE LET y == Head(ys)
             keep == /\ ~ExceedsBounds(x, y, slide.w, slide.h)
                     /\ TissueAccepted(TissuePixels(slide, x, y))
         IN  ScanY(slide, dir, x, Tail(ys),
                   IF keep THEN Append(acc, PathJoin(dir, TileName(x, y))) ELSE acc)

RECURSIVE ScanX(_, _, _, _, _)
ScanX(slide, dir, xs, ys, acc) ==
    IF xs = <<>> THEN acc
    ELSE ScanX(slide, dir, Tail(xs), ys, ScanY(slide, dir, Head(xs), ys, acc))

RECURSIVE ScanRegions(_, _, _, _, _)
ScanRegions(slide, dir, regions, f, acc) ==
    IF regions = <<>> THEN acc
    ELSE ScanRegions(slide, dir, Tail(regions), f,
                     ScanX(slide, dir, GridX(Head(regions), f), GridY(Head(regions), f), acc))

extract_tiles(slide, labeled_mask, downsample_factor, output_subdir) ==
    ScanRegions(slide, output_subdir, labeled_mask, downsample_factor, <<>>)

\* ------------------------------------------------------------------------
\* PROCESS SVS FILE
\* ------------------------------------------------------------------------
\* os.path.join(OUTPUT_DIR, filename)
OutputSubdir(slide) == <<OUTPUT_DIR, slide.name>>

\* downsample_factor = slide_w / thumb_w with thumb_w, thumb_h = 1024, 1024
DownsampleFactor(slide) == [num |-> slide.w, den |-> THUMB_MAX]

process_svs_file(slide) ==
    [tile_paths |-> extract_tiles(slide, Regions(slide), DownsampleFactor(slide),
                                  OutputSubdir(slide)),
     downsample_factor |-> DownsampleFactor(slide)]

\* ------------------------------------------------------------------------
\* CLASSIFY TILES
\* ------------------------------------------------------------------------
Classes == Range(CLASS_NAMES)

\* A per-tile distribution: round(probabilities[i] * 100, 2) for each class.
Dist(t, m, k, s) ==
    [c \in Classes |-> CASE c = "Tumor Cells"  -> t
                         [] c = "Mitosis"      -> m
                         [] c = "Karyorrhexis" -> k
                         [] c = "Stroma"       -> s]

\* What the network answers for one tile image: the argmax class and the
\* rounded softmax percentages (the argmax class has a largest percentage).
ModelOutputs ==
    {[label |-> "Tumor Cells",  dist |-> Dist(10000, 0, 0, 0)],
     [label |-> "Stroma",       dist |-> Dist(0, 0, 0, 10000)],
     [label |-> "Stroma",       dist |-> Dist(1, 0, 0, 9999)],
     [label |-> "Mitosis",      dist |-> Dist(0, 5000, 5000, 0)]}

\* The loop of classify_tiles: out[tile_path] is the network's answer for the
\* image stored at tile_path.
RECURSIVE ClassifyLoop(_, _, _)
ClassifyLoop(tile_paths, out, acc) ==
    IF tile_paths = <<>> THEN acc
    ELSE LET tile_path == Head(tile_paths)
         IN  ClassifyLoop(Tail(tile_paths), out,
                 [tile_predictions |->
                      DictSet(acc.tile_predictions, tile_path, out[tile_path].label),
                  tile_distributions |->
                      DictSet(acc.tile_distributions, tile_path, out[tile_path].dist)])

classify_tiles(out, tile_paths) ==
    ClassifyLoop(tile_paths, out, [tile_predictions |-> <<>>, tile_distributions |-> <<>>])

\* ------------------------------------------------------------------------
\* AGGREGATE PREDICTIONS
\* ------------------------------------------------------------------------
\* Counter(values): counts keyed by label, in the order labels are first met.
RECURSIVE Counter(_, _)
Counter(values, acc) ==
    IF values = <<>> THEN acc
    ELSE Counter(Tail(values), DictSet(acc, Head(values), DictGet(acc, Head(values), 0) + 1))

\* Faulty variant: the percentage cut to a whole percent.
ClassPercentageWhole(count, total_tiles) == 100 * ((count * 100) \div total_tiles)

\* round((count / total_tiles) * 100, 2), in hundredths of a percent
ClassPercentage(count, total_tiles) == Round(count * 10000, total_tiles)

\* Faulty variant: among equal counts the label met last.
MostCommonLast(class_counts) ==
    class_counts[CHOOSE i \in 1..Len(class_counts) :
        /\ \A j \in 1..Len(class_counts) : class_counts[j].val <= class_counts[i].val
        /\ \A j \in (i + 1)..Len(class_counts) : class_counts[j].val < class_counts[i].val].key

\* class_counts.most_common(1)[0][0]: the first entry whose count is largest.
MostCommon(class_counts) ==
    class_counts[CHOOSE i \in 1..Len(class_counts) :
        /\ \A j \in 1..Len(class_counts) : class_counts[j].val <= class_counts[i].val
        /\ \A j \in 1..(i - 1) : class_counts[j].val < class_counts[i].val].key

\* raised = "" when the call returns.
aggregate_predictions(tile_predictions) ==
    LET class_counts == Counter(DictValues(tile_predictions), <<>>)
        total_tiles == SumSeq(DictValues(class_counts))
        class_percentages ==
            [i \in 1..Len(class_counts) |->
                [key |-> class_counts[i].key,
                 val |-> ClassPercentage(class_counts[i].val, total_tiles)]]
    IN  IF class_counts = <<>>
        THEN [raised |-> "IndexError", most_common_class |-> "", class_percentages |-> <<>>]
        ELSE [raised |-> "", most_common_class |-> MostCommon(class_counts),
              class_percentages |-> class_percentages]

\* ------------------------------------------------------------------------
\* SAVE RESULTS TO CSV
\* ------------------------------------------------------------------------
\* int(round(percentage * TILE_SIZE * TILE_SIZE / 10000))
EstimatedCellCount(percentage) == Round(percentage * TILE_SIZE * TILE_SIZE, 1000000)

Final(is_tumor_positive) == IF is_tumor_positive THEN "Tumor Positive" ELSE "Tumor Negative"

TileRow(tile_path, predicted_class, dist) ==
    [name |-> Some(tile_path), predicted |-> predicted_class,
     pct |-> dist, count |-> [c \in Classes |-> EstimatedCellCount(dist[c])],
     final |-> Final(dist["Tumor Cells"] > 0)]

\* round(wsi_sums[cls] / total_tiles, 2)
WsiPercentage(wsi_sum, total_tiles) == Round(wsi_sum, total_tiles)

\* The rows written to RESULTS_CSV; nothing is written when the call raises
\* (tile_distributions[tile_path] in the loop, the division after it).
save_results_to_csv(tile_predictions, tile_distributions) ==
    LET total_tiles == Len(tile_predictions)
        dist(i) == DictGet(tile_distributions, tile_predictions[i].key, Dist(0, 0, 0, 0))
        results == [i \in 1..total_tiles |->
                       TileRow(tile_predictions[i].key, tile_predictions[i].val, dist(i))]
        wsi_sums == [c \in Classes |-> SumSeq([i \in 1..total_tiles |-> results[i].pct[c]])]
        wsi_cell_counts ==
            [c \in Classes |-> SumSeq([i \in 1..total_tiles |-> results[i].count[c]])]
        wsi_percentages == [c \in Classes |-> WsiPercentage(wsi_sums[c], total_tiles)]
        wsi_final_classification == Final(wsi_percentages["Tumor Cells"] > 0)
        wsi_summary == [name |-> None, predicted |-> wsi_final_classification,
                        pct |-> wsi_percentages, count |-> wsi_cell_counts,
                        final |-> wsi_final_classification]
    IN  IF \E i \in 1..total_tiles : ~DictHas(tile_distributions, tile_predictions[i].key)
        THEN [raised |-> "KeyError", rows |-> <<>>]
        ELSE IF total_tiles = 0
        THEN [raised |-> "ZeroDivisionError", rows |-> <<>>]
        ELSE [raised |-> "", rows |-> Append(results, wsi_summary)]

\* ------------------------------------------------------------------------
\* MARK TUMOR REGIONS / MARK ALL CELL TYPES
\* ------------------------------------------------------------------------
\* Faulty variant: the quotient rounded to the nearest pixel.
ScaleDownRounded(v, f) == Round(v * f.den, f.num)

\* int(v / downsample_factor)
ScaleDown(v, f) == (v * f.den) \div f.num

\* os.path.basename(tile_path).replace("tile_", "").replace(".jpg", "").split("_")
KeyParts(tile_path) == Split(Remove(Remove(Basename(tile_path), TILE_PREFIX), JPG_SUFFIX), "_")

\* The rectangle drawn for the tile at (x, y).
Box(x, y, f, outline) ==
    LET x_thumb == ScaleDown(x, f)
        y_thumb == ScaleDown(y, f)
        box_size == ScaleDown(256, f)
    IN  [x0 |-> x_thumb, y0 |-> y_thumb,
         x1 |-> x_thumb + box_size, y1 |-> y_thumb + box_size, outline |-> outline]

\* The drawing loop shared by the two functions: items are [path, outline].
\* map(int, parts) raises ValueError on a part that is no integer; the
\* exception leaves the loop and is caught by the function's except clause.
RECURSIVE DrawLoop(_, _, _)
DrawLoop(items, f, drawn) ==
    IF items = <<>> THEN [raised |-> "", drawn |-> drawn]
    ELSE LET parts == KeyParts(Head(items).path)
         IN  IF Len(parts) # 2 THEN DrawLoop(Tail(items), f, drawn)
             ELSE IF ~(IsInt(parts[1]) /\ IsInt(parts[2]))
                  THEN [raised |-> "ValueError", drawn |-> drawn]
                  ELSE DrawLoop(Tail(items), f,
                           Append(drawn, Box(ParseInt(parts[1]), ParseInt(parts[2]), f,
                                             Head(items).outline)))

\* The returned thumbnail (its drawn boxes), or None after a caught exception.
mark_tumor_regions(tumor_tiles, downsample_factor) ==
    LET r == DrawLoop([i \in 1..Len(tumor_tiles) |->
                          [path |-> tumor_tiles[i], outline |-> "red"]],
                      downsample_factor, <<>>)
    IN  IF r.raised # "" THEN None ELSE Some(r.drawn)

CellColor(cell_type) ==
    CASE cell_type = "Tumor Cells"  -> "red"
      [] cell_type = "Mitosis"      -> "blue"
      [] cell_type = "Karyorrhexis" -> "purple"
      [] cell_type = "Stroma"       -> "green"
      [] OTHER                      -> "gray"

\* tile_predictions is <<dict>> or None; None.items() raises AttributeError.
mark_all_cell_types(tile_predictions, downsample_factor) ==
    IF tile_predictions = None THEN None
    ELSE LET d == tile_predictions[1]
             r == DrawLoop([i \in 1..Len(d) |->
                               [path |-> d[i].key, outline |-> CellColor(d[i].val)]],
                           downsample_factor, <<>>)
         IN  IF r.raised # "" THEN None ELSE Some(r.drawn)

\* ------------------------------------------------------------------------
\* Inputs: the slides a user can upload
\* ------------------------------------------------------------------------
SlideDims == {<<2048, 2048>>, <<1536, 1536>>, <<1024, 2048>>, <<2048, 1024>>}

\* Bounding boxes (minr, minc, maxr, maxc) in thumbnail pixels.
BBoxes == {<<0, 0, 200, 200>>, <<128, 128, 192, 192>>,
           <<384, 256, 400, 300>>, <<900, 900, 1024, 1024>>}

SeqsUpTo(S, n) == UNION {[1..k -> S] : k \in 0..n}

\* Region lists a labelled mask of the slide's thumbnail can yield: boxes
\* inside the thumbnail, of distinct components, in label (raster) order.
RegionLists(w, h) ==
    {r \in SeqsUpTo(BBoxes, MaxRegions) :
        /\ \A i \in 1..Len(r) : r[i][3] <= ThumbnailSize(w, h)[2]
                                /\ r[i][4] <= ThumbnailSize(w, h)[1]
        /\ \A i, j \in 1..Len(r) : i < j => r[i][1] < r[j][1]}

Slides ==
    UNION {{[name |-> n, w |-> d[1], h |-> d[2], content |-> c, regions |-> r] :
               n \in {"slide.svs"}, c \in {"dense", "half", "mixed"},
               r \in RegionLists(d[1], d[2])} : d \in SlideDims}

\* ------------------------------------------------------------------------
\* STREAMLIT UI: the state the script keeps between its runs
\* ------------------------------------------------------------------------
VARIABLES
    uploaded_file,   \* the file-uploader widget: None or <<slide>>
    svs_file,        \* the file written at session_state.svs_path: None or <<slide>>
    session_state,   \* st.session_state
    tile_paths,      \* tile_paths of the latest run that tiled a slide: None or <<list>>
    results_csv,     \* the rows of RESULTS_CSV: None or <<rows>>
    ui,              \* what the latest run of the script put on the page
    call,            \* a function called on its own: its name and arguments
    ret              \* ... and what it returned

vars == <<uploaded_file, svs_file, session_state, tile_paths, results_csv, ui, call, ret>>

pipeline_vars == <<uploaded_file, svs_file, session_state, tile_paths, results_csv, ui>>

NoCall == [fn |-> "", args |-> <<>>]

\* session_vars are set to None; setdefault finds class_distribution present.
InitialSessionState ==
    [svs_path |-> None, tile_predictions |-> None, tile_distributions |-> None,
     class_distribution |-> None, tumor_tiles |-> None, downsample_factor |-> None]

BlankPage ==
    [no_tiles_error |-> FALSE, extracted |-> None, slide_status |-> None,
     show_map_button |-> FALSE, check_tumor_button |-> FALSE,
     pressed |-> "", image |-> None]

Init ==
    /\ uploaded_file = None
    /\ svs_file = None
    /\ session_state = InitialSessionState
    /\ tile_paths = None
    /\ results_csv = None
    /\ ui = BlankPage
    /\ call = NoCall
    /\ ret = None

\* os.path.join(UPLOAD_DIR, uploaded_file.name)
UploadPath(file) == file.name

\* Lines 236-243: another file name forgets the previous slide's results.
ResetIfOtherFile(ss, uploaded) ==
    IF ss.svs_path # Some(UploadPath(uploaded))
    THEN [ss EXCEPT !.svs_path = None, !.tile_predictions = None,
                    !.tile_distributions = None, !.class_distribution = Some(<<>>),
                    !.tumor_tiles = Some(<<>>)]
    ELSE ss

\* [tile for tile, pred in tile_predictions.items() if pred == cls]
TilesPredicted(tile_predictions, cls) ==
    LET keep == {i \in 1..Len(tile_predictions) : tile_predictions[i].val = cls}
        nth(k) == CHOOSE i \in keep : Cardinality({j \in keep : j <= i}) = k
    IN  [k \in 1..Cardinality(keep) |-> tile_predictions[nth(k)].key]

Truthy(maybe) == maybe # None /\ maybe[1] # <<>>

\* has_tumor and slide_status of lines 285-288
HasTumor(class_distribution) == DictGet(class_distribution, "Tumor Cells", 0) > 0

SlideStatus(class_distribution) == Final(HasTumor(class_distribution))

\* One run of the script, top to bottom, with the uploader holding `uploaded`
\* (<<slide>>) and `button` the button whose press caused the run ("" for
\* none).  The network's answers are the run's only free input.
RunScript(uploaded, button) ==
    \E file \in {uploaded[1]} :
    \E ss1 \in {ResetIfOtherFile(session_state, file)} :
    \E proc \in {process_svs_file(file)} :
    LET fresh == ss1.tile_predictions = None
        paths == proc.tile_paths
    IN  \E out \in [(IF fresh THEN Range(paths) ELSE {}) -> ModelOutputs] :
        \E cls \in {classify_tiles(out, IF fresh THEN paths ELSE <<>>)} :
        \E agg \in {aggregate_predictions(cls.tile_predictions)} :
        \E ss2 \in {IF ~fresh THEN ss1
                    ELSE IF paths = <<>>
                    THEN [ss1 EXCEPT !.svs_path = Some(UploadPath(file)),
                                     !.downsample_factor = Some(proc.downsample_factor)]
                    ELSE [svs_path |-> Some(UploadPath(file)),
                          tile_predictions |-> Some(cls.tile_predictions),
                          tile_distributions |-> Some(cls.tile_distributions),
                          class_distribution |-> Some(agg.class_percentages),
                          tumor_tiles |->
                              Some(TilesPredicted(cls.tile_predictions, "Tumor Cells")),
                          downsample_factor |-> Some(proc.downsample_factor)]} :
        LET shown == Truthy(ss2.tile_predictions) /\ Truthy(ss2.class_distribution)
            has_tumor == shown /\ HasTumor(ss2.class_distribution[1])
            map_button == ss2.class_distribution # None
            tumor_button == /\ map_button
                            /\ Truthy(ss2.tumor_tiles)
                            /\ has_tumor
                            /\ ss2.svs_path # None
            image == CASE button = "map" /\ map_button /\ ss2.svs_path # None ->
                              mark_all_cell_types(ss2.tile_predictions,
                                                  ss2.downsample_factor[1])
                       [] button = "tumor" /\ tumor_button ->
                              mark_tumor_regions(ss2.tumor_tiles[1],
                                                 ss2.downsample_factor[1])
                       [] OTHER -> None
        IN  /\ uploaded_file' = uploaded
            /\ svs_file' = IF fresh THEN Some(file) ELSE svs_file
            /\ session_state' = ss2
            /\ tile_paths' = IF fresh THEN Some(paths) ELSE tile_paths
            /\ results_csv' =
                   IF fresh /\ paths # <<>>
                   THEN Some(save_results_to_csv(cls.tile_predictions,
                                                 cls.tile_distributions).rows)
                   ELSE results_csv
            /\ ui' = [no_tiles_error |-> fresh /\ paths = <<>>,
                      extracted |-> IF fresh /\ paths # <<>> THEN Some(Len(paths)) ELSE None,
                      slide_status |->
                          IF shown THEN Some(SlideStatus(ss2.class_distribution[1]))
                          ELSE None,
                      show_map_button |-> map_button,
                      check_tumor_button |-> tumor_button,
                      pressed |-> button,
                      image |-> image]
            /\ UNCHANGED <<call, ret>>

\* The user puts a file in the (empty) uploader.
Upload ==
    /\ uploaded_file = None
    /\ \E slide \in Slides : RunScript(Some(slide), "")

\* The user presses "Show Class Distribution Map".
PressShowMap ==
    /\ ui.show_map_button
    /\ uploaded_file # None
    /\ RunScript(uploaded_file, "map")

\* The user presses "Check Tumor Regions".
PressCheckTumor ==
    /\ ui.check_tumor_button
    /\ uploaded_file # None
    /\ RunScript(uploaded_file, "tumor")

Next == Upload \/ PressShowMap \/ PressCheckTumor

Spec == Init /\ [][Next]_vars

\* ------------------------------------------------------------------------
\* The functions called on their own, on arguments of their declared shape
\* ------------------------------------------------------------------------
SlideDir == <<OUTPUT_DIR, "slide.svs">>

\* A mapping with one tile per entry of `values`, in tiling order.
MappingOf(values) ==
    [i \in 1..Len(values) |->
        [key |-> PathJoin(SlideDir, TileName((i - 1) * TILE_SIZE, 0)), val |-> values[i]]]

\* Ten tiles, three of them "Tumor Cells" and seven "Stroma".
ScenarioLabels ==
    [i \in 1..10 |-> IF i \in {1, 4, 8} THEN "Tumor Cells" ELSE "Stroma"]

PredictionMappings ==
    {MappingOf(l) : l \in SeqsUpTo(Classes, MaxTiles) \cup {ScenarioLabels}}

\* Tile keys: two that extract_tiles writes and three it never writes.
GoodKeys == {TileName(512, 768), TileName(0, 256)}
BadKeys == {TILE_PREFIX \o <<"a", "_", "b">> \o JPG_SUFFIX,
            TILE_PREFIX \o <<"5">> \o JPG_SUFFIX,
            TILE_PREFIX \o <<"1", "_", "2", "_", "3">> \o JPG_SUFFIX}
KeyPaths == {PathJoin(SlideDir, k) : k \in GoodKeys \cup BadKeys}

Factors == {[num |-> d[1], den |-> THUMB_MAX] : d \in SlideDims}

CallAggregate ==
    /\ call = NoCall
    /\ \E tile_predictions \in PredictionMappings :
        /\ call' = [fn |-> "aggregate_predictions", args |-> <<tile_predictions>>]
        /\ ret' = aggregate_predictions(tile_predictions)
        /\ UNCHANGED pipeline_vars

CallSaveCsv ==
    /\ call = NoCall
    /\ \E outs \in SeqsUpTo(ModelOutputs, MaxTiles) :
        LET tile_predictions == MappingOf([i \in 1..Len(outs) |-> outs[i].label])
            tile_distributions == MappingOf([i \in 1..Len(outs) |-> outs[i].dist])
        IN  /\ call' = [fn |-> "save_results_to_csv",
                        args |-> <<tile_predictions, tile_distributions>>]
            /\ ret' = save_results_to_csv(tile_predictions, tile_distributions)
            /\ UNCHANGED pipeline_vars

CallMarkTumor ==
    /\ call = NoCall
    /\ \E tumor_tiles \in SeqsUpTo(KeyPaths, MaxTiles), f \in Factors :
        /\ call' = [fn |-> "mark_tumor_regions", args |-> <<tumor_tiles, f>>]
        /\ ret' = mark_tumor_regions(tumor_tiles, f)
        /\ UNCHANGED pipeline_vars

CallMarkAll ==
    /\ call = NoCall
    /\ \E keys \in {k \in SeqsUpTo(KeyPaths, MaxTiles) :
                    \A i, j \in 1..Len(k) : k[i] = k[j] => i = j},
       types \in [1..2 -> {"Tumor Cells", "Stroma", "Necrosis"}],
       f \in Factors :
        LET tile_predictions ==
                [i \in 1..Len(keys) |-> [key |-> keys[i], val |-> types[(i % 2) + 1]]]
        IN  /\ call' = [fn |-> "mark_all_cell_types", args |-> <<tile_predictions, f>>]
            /\ ret' = mark_all_cell_types(Some(tile_predictions), f)
            /\ UNCHANGED pipeline_vars

NextFn == CallAggregate \/ CallSaveCsv \/ CallMarkTumor \/ CallMarkAll

SpecFn == Init /\ [][NextFn]_vars

\* ------------------------------------------------------------------------
\* Properties
\* ------------------------------------------------------------------------
\* What the latest tiling run worked on.
TiledSlide == svs_file[1]
TiledFactor == session_state.downsample_factor[1]

\* The grid coordinates extract_tiles enumerates for the tiled slide.
Candidates ==
    UNION {Range(GridX(TiledSlide.regions[i], TiledFactor))
               \X Range(GridY(TiledSlide.regions[i], TiledFactor)) :
           i \in 1..Len(TiledSlide.regions)}

PathOf(c) == PathJoin(OutputSubdir(TiledSlide), TileName(c[1], c[2]))

InsideSlide(c) == c[1] + TILE_SIZE <= TiledSlide.w /\ c[2] + TILE_SIZE <= TiledSlide.h

\* tissue ratio = pixels / 65536, compared with 1/2
RatioAboveHalf(c) == 2 * TissuePixels(TiledSlide, c[1], c[2]) > TILE_SIZE * TILE_SIZE
RatioExactlyHalf(c) == 2 * TissuePixels(TiledSlide, c[1], c[2]) = TILE_SIZE * TILE_SIZE

\* C1: every grid coordinate enumerated inside a region's full-resolution
\* bounding box is in the list extract_tiles returns if and only if the tile
\* lies inside the slide (x + TILE_SIZE <= W, y + TILE_SIZE <= H) and its
\* tissue ratio is strictly greater than 0.5.
C1_AcceptedIffInsideAndDense ==
    tile_paths # None =>
        \A c \in Candidates :
            (PathOf(c) \in Range(tile_paths[1])) <=> (InsideSlide(c) /\ RatioAboveHalf(c))

\* C1 witness: one run accepted a tile, rejected a tile inside the slide
\* whose ratio is exactly 0.5, and rejected a tile reaching over the border.
C1_Witness ==
    /\ tile_paths # None
    /\ \E c \in Candidates : PathOf(c) \in Range(tile_paths[1])
    /\ \E c \in Candidates :
           InsideSlide(c) /\ RatioExactlyHalf(c) /\ PathOf(c) \notin Range(tile_paths[1])
    /\ \E c \in Candidates : ~InsideSlide(c) /\ PathOf(c) \notin Range(tile_paths[1])

\* C2: the list extract_tiles returns holds each accepted coordinate at most
\* once, also when the grids of two regions meet at the same coordinate.
C2_NoDuplicateTiles ==
    tile_paths # None =>
        \A i, j \in 1..Len(tile_paths[1]) : tile_paths[1][i] = tile_paths[1][j] => i = j

\* The 'Overall WSI Summary' row and the per-tile rows of the written file.
SummaryRow == results_csv[1][Len(results_csv[1])]
TileRows == SubSeq(results_csv[1], 1, Len(results_csv[1]) - 1)

\* C3: the summary row says 'Tumor Positive' if and only if the mean of the
\* per-tile 'Tumor Cells' percentages is strictly greater than zero (the
\* mean of non-negative values is positive exactly when their sum is).
C3_PositiveIffMeanAboveZero ==
    results_csv # None =>
        ((SummaryRow.final = "Tumor Positive") <=>
            (SumSeq([i \in 1..Len(TileRows) |-> TileRows[i].pct["Tumor Cells"]]) > 0))

\* C4: called with no tile predictions, aggregate_predictions and
\* save_results_to_csv return (signalling "undefined") and do not raise.
C4_EmptyInputDoesNotRaise ==
    (call.fn \in {"aggregate_predictions", "save_results_to_csv"} /\ call.args[1] = <<>>)
        => ret.raised = ""

\* C4, for the script: a run that accepts no tile reports "no tiles found",
\* calls neither function and writes no summary.
C4_NoTilesNoSummary ==
    (tile_paths # None /\ tile_paths[1] = <<>>)
        => /\ ui.no_tiles_error
           /\ results_csv = None
           /\ session_state.tile_predictions = None
           /\ ui.slide_status = None

\* The key's coordinates can be recovered: two parts, both integers.
Recoverable(path) ==
    LET parts == KeyParts(path)
    IN  Len(parts) = 2 /\ IsInt(parts[1]) /\ IsInt(parts[2])

OverlayKeys ==
    IF call.fn = "mark_tumor_regions" THEN call.args[1] ELSE DictKeys(call.args[1])

\* C5: both overlay functions skip every tile whose coordinates cannot be
\* recovered from its key, draw the remaining tiles and return the thumbnail.
C5_MalformedKeysAreSkipped ==
    call.fn \in {"mark_tumor_regions", "mark_all_cell_types"} =>
        /\ ret # None
        /\ Len(ret[1]) = Cardinality({i \in 1..Len(OverlayKeys) : Recoverable(OverlayKeys[i])})

\* C6: the downsample factor the pipeline uses equals W / Tw, Tw being the
\* width of the thumbnail the slide yields.
C6_FactorIsWidthOverThumbnailWidth ==
    tile_paths # None =>
        TiledFactor.num * ThumbnailSize(TiledSlide.w, TiledSlide.h)[1]
            = TiledSlide.w * TiledFactor.den

\* The tiles an overlay drew, in drawing order, after a button press.
OverlayTiles ==
    IF ui.pressed = "map" THEN DictKeys(session_state.tile_predictions[1])
    ELSE session_state.tumor_tiles[1]

OverlayDrawn == ui.pressed # "" /\ ui.image # None

BoxSize(b) == b.x1 - b.x0

\* C7 as stated: each overlay box has origin exactly (x / f, y / f) and size
\* exactly TILE_SIZE / f.
C7_BoxIsExactQuotient ==
    OverlayDrawn =>
        /\ Len(ui.image[1]) = Len(OverlayTiles)
        /\ \A i \in 1..Len(OverlayTiles) : \A c \in Candidates :
               PathOf(c) = OverlayTiles[i] =>
                   LET b == ui.image[1][i]
                   IN  /\ b.x0 * TiledFactor.num = c[1] * TiledFactor.den
                       /\ b.y0 * TiledFactor.num = c[2] * TiledFactor.den
                       /\ BoxSize(b) * TiledFactor.num = TILE_SIZE * TiledFactor.den
                       /\ b.y1 - b.y0 = BoxSize(b)

\* q is the quotient v / f cut to a whole number.
IsTruncatedQuotient(q, v, f) == q * f.num <= v * f.den /\ v * f.den < (q + 1) * f.num

\* C7 (amended): each overlay box has origin (x / f, y / f) and size
\* TILE_SIZE / f truncated to whole pixels; with factor 2.0 the tile
\* (512, 768) is drawn at origin (256, 384) with size 128.
C7_BoxIsTruncatedQuotient ==
    OverlayDrawn =>
        /\ Len(ui.image[1]) = Len(OverlayTiles)
        /\ \A i \in 1..Len(OverlayTiles) : \A c \in Candidates :
               PathOf(c) = OverlayTiles[i] =>
                   LET b == ui.image[1][i]
                   IN  /\ IsTruncatedQuotient(b.x0, c[1], TiledFactor)
                       /\ IsTruncatedQuotient(b.y0, c[2], TiledFactor)
                       /\ IsTruncatedQuotient(BoxSize(b), TILE_SIZE, TiledFactor)
                       /\ b.y1 - b.y0 = BoxSize(b)
                       /\ (TiledFactor.num = 2 * TiledFactor.den /\ c = <<512, 768>>)
                              => (b.x0 = 256 /\ b.y0 = 384 /\ BoxSize(b) = 128)

\* C7 witness: an overlay drew a box whose origin and size are not the exact
\* quotients (factor 1.5: 256 / 1.5 is cut to 170).
C7_Witness ==
    /\ OverlayDrawn
    /\ \E i \in 1..Len(OverlayTiles) : \E c \in Candidates :
           /\ PathOf(c) = OverlayTiles[i]
           /\ ui.image[1][i].x0 * TiledFactor.num # c[1] * TiledFactor.den
           /\ BoxSize(ui.image[1][i]) * TiledFactor.num # TILE_SIZE * TiledFactor.den

\* The percentages and the most common class of a call of aggregate_predictions.
AggregateCalled == call.fn = "aggregate_predictions" /\ call.args[1] # <<>>
Labels == DictValues(call.args[1])
CountOf(c) == Cardinality({i \in 1..Len(Labels) : Labels[i] = c})
FirstSeen(c) == CHOOSE i \in 1..Len(Labels) : Labels[i] = c /\ \A j \in 1..(i - 1) : Labels[j] # c

\* C8: the per-class percentages of a non-empty mapping sum to 100.0 within
\* 0.1 (classes that were never predicted count as 0).
C8_PercentagesSumTo100 ==
    AggregateCalled =>
        LET total == SumSeq([c \in 1..Len(CLASS_NAMES) |->
                                DictGet(ret.class_percentages, CLASS_NAMES[c], 0)])
        IN  /\ 10000 - 10 <= total /\ total <= 10000 + 10
            /\ \A i \in 1..Len(ret.class_percentages) :
                   ret.class_percentages[i].key \in Classes

\* C8 witness: three tiles of three classes, 33.33 % each, sum 99.99.
C8_Witness ==
    /\ AggregateCalled
    /\ Len(ret.class_percentages) = 3
    /\ \A i \in 1..3 : ret.class_percentages[i].val = 3333

\* C9: the most common class has a largest count, and of the labels with that
\* count it is the one met first in the mapping's order; the ten tiles
\* {Tumor Cells: 3, Stroma: 7} give "Stroma" and {30.0, 70.0}.
C9_MostCommonIsFirstLargest ==
    AggregateCalled =>
        /\ ret.raised = ""
        /\ ret.most_common_class \in Range(Labels)
        /\ \A c \in Range(Labels) :
               /\ CountOf(c) <= CountOf(ret.most_common_class)
               /\ CountOf(c) = CountOf(ret.most_common_class)
                      => FirstSeen(ret.most_common_class) <= FirstSeen(c)
        /\ (CountOf("Tumor Cells") = 3 /\ CountOf("Stroma") = 7 /\ Len(Labels) = 10)
               => /\ ret.most_common_class = "Stroma"
                  /\ Range(ret.class_percentages) =
                         {[key |-> "Tumor Cells", val |-> 3000], [key |-> "Stroma", val |-> 7000]}

\* C9 witness: two labels share the largest count and the later-met one is
\* not returned.
C9_Witness ==
    /\ AggregateCalled
    /\ \E c \in Range(Labels) :
           /\ c # ret.most_common_class
           /\ CountOf(c) = CountOf(ret.most_common_class)
           /\ FirstSeen(ret.most_common_class) < FirstSeen(c)

\* C10: the slide status shown to the user equals the 'Final Classification'
\* of the summary row written for the same run.
C10_ShownStatusAgreesWithCsv ==
    (ui.slide_status # None /\ results_csv # None) => ui.slide_status[1] = SummaryRow.final

====
